---- MODULE Spec2Model ----
(***************************************************************************)
(* CachedLoader (src/src/atc/cache/CachedLoader.py): the cache table, the  *)
(* reducer _discard_non_new_rows_against_cache, the cache updates and the  *)
(* control flow of save.                                                   *)
(*                                                                         *)
(* Data frames are sets of records.  An incoming row has one key column    *)
(* and one payload column, [key, val]; a cache row is                      *)
(* [key, rowHash, loadedTime, deletedTime] (cache_id_cols is empty).       *)
(* Timestamps are counted in ticks, TicksPerSec ticks to the second, so    *)
(* that the cast of loadedTime to whole seconds is visible.                *)
(***************************************************************************)
EXTENDS Integers, FiniteSets, Sequences, TLC

\* ---- bounds of the model
NumKeys == 2
NumVals == 2
HashMod == 2
TicksPerSec == 2
MaxTime == 5
MaxClock == 3
MaxTtl == 2
MaxRowLimit == 1
MaxCalls == 2
MaxViewName == 1
MaxVersions == 3
MaxCounted == 2

\* SQL NULL / Python None in a column
NULL == -1

Keys == 1..NumKeys
Vals == 1..NumVals
Times == 0..MaxTime

VARIABLES
    cacheTable,      \* the rows of the cache table (current version)
    clock,           \* wall clock, in ticks
    params,          \* CachedLoaderParameters: max_ttl, refresh_ttl, refresh_row_limit
    n_rows_all_writes,
    n_rows_last_write,
    pc,              \* position of the running save call
    df,              \* the batch handed to save, after dropDuplicates
    tableAtStart,    \* the cache table when the call started
    cache,           \* result of _extract_cache
    now,             \* "now" of the reducer
    to_be_written,   \* ReductionResult.to_be_written
    to_be_deleted,   \* ReductionResult.to_be_deleted
    df_written,      \* Optional result of write_operation
    df_deleted,      \* Optional result of delete_operation
    written_update,  \* the rows merged by the write branch, when it committed
    raisedIn,        \* the step that raised, "" when none
    prev,            \* what this call repeats, when save is called again
    steps,           \* the steps this call has taken, in order
    calls,           \* number of save calls so far
    history,         \* the versions of the cache table, oldest first
    version,         \* the version number _extract_cache has read
    views,           \* the temporary views of the Spark session, by name
    merges,          \* the _load_cache calls in flight
    cls,             \* the class of the loader under construction
    columns,         \* the columns of the cache table
    saves,           \* the save calls that run side by side, each by its position
    commits,         \* the sources of the MERGE statements committed, in order
    batch            \* the batch a caller passes to save again and again

vars == <<cacheTable, clock, params, n_rows_all_writes, n_rows_last_write, pc,
          df, tableAtStart, cache, now, to_be_written, to_be_deleted,
          df_written, df_deleted, written_update, raisedIn, prev, steps, calls,
          history, version, views, merges, cls, columns, saves, commits, batch>>

\* ---- values

Row(k, v) == [key |-> k, val |-> v]

\* the rows a caller can put in a batch; one row has a null key
InRows == {Row(k, v) : k \in Keys, v \in Vals} \cup {Row(NULL, 1)}

CacheRow(k, h, l, d) == [key |-> k, rowHash |-> h, loadedTime |-> l, deletedTime |-> d]

\* Optional[DataFrame]
None == [some |-> FALSE, rows |-> {}]
Some(rows) == [some |-> TRUE, rows |-> rows]

ParamSets == [max_ttl : 0..MaxTtl, refresh_ttl : 0..MaxTtl,
              refresh_row_limit : 0..MaxRowLimit]

KeysOf(rows) == {r.key : r \in rows}

\* f.hash over all columns of the row: a deterministic fingerprint that is
\* not injective
hash(k, v) == (k + v) % HashMod

\* faulty variant: the batch is not deduplicated
dropDuplicates_none(b) == {b}

\* ---- save, lines 79-80: df.dropDuplicates(key_cols) keeps one arbitrary
\* row per key value (null keys group together)
dropDuplicates(b) ==
    {d \in SUBSET b : \A r \in b : Cardinality({x \in d : x.key = r.key}) = 1}

\* faulty variant: the query has no WHERE clause
extract_cache_all(table) == table

\* faulty variant: the filter on deletedTime is forgotten
extract_cache_withDeleted(table) ==
    {c \in table : c.rowHash # NULL /\ c.loadedTime # NULL}

\* ---- _extract_cache: the active rows of the table
extract_cache(table) ==
    {c \in table : c.deletedTime = NULL /\ c.rowHash # NULL /\ c.loadedTime # NULL}

\* ---- _discard_non_new_rows_against_cache

\* faulty variant: the rows with a null key are not filtered out
filter_null_keys_none(df_in) == df_in

\* lines 185-188
filter_null_keys(df_in) == {r \in df_in : r.key # NULL}

\* lines 190-194
df_hashed(df_in) ==
    {[key |-> r.key, val |-> r.val, rowHash |-> hash(r.key, r.val), fromPayload |-> 1]
        : r \in df_in}

\* lines 196-201: full outer join on the key
joined_df(dfh, c) ==
    {[key |-> p[1].key, val |-> p[1].val, df_rowHash |-> p[1].rowHash,
      fromPayload |-> p[1].fromPayload, cache_rowHash |-> p[2].rowHash,
      loadedTime |-> p[2].loadedTime, deletedTime |-> p[2].deletedTime]
        : p \in {q \in dfh \X c : q[1].key = q[2].key}}
    \cup
    {[key |-> d.key, val |-> d.val, df_rowHash |-> d.rowHash,
      fromPayload |-> d.fromPayload, cache_rowHash |-> NULL,
      loadedTime |-> NULL, deletedTime |-> NULL]
        : d \in {x \in dfh : \A y \in c : y.key # x.key}}
    \cup
    {[key |-> y.key, val |-> NULL, df_rowHash |-> NULL,
      fromPayload |-> NULL, cache_rowHash |-> y.rowHash,
      loadedTime |-> y.loadedTime, deletedTime |-> y.deletedTime]
        : y \in {x \in c : \A d \in dfh : d.key # x.key}}

\* line 210: SQL equality, null when either side is null
hashMatch(j) ==
    IF j.df_rowHash = NULL \/ j.cache_rowHash = NULL THEN NULL
    ELSE IF j.df_rowHash = j.cache_rowHash THEN 1 ELSE 0

\* lines 203-213
joined_df_incoming(joined) ==
    {[key |-> j.key, val |-> j.val, rowHash |-> j.df_rowHash,
      loadedTime |-> j.loadedTime, hashMatch |-> hashMatch(j)]
        : j \in {x \in joined : x.fromPayload # NULL}}

\* lines 215-220
to_be_deleted_of(joined) ==
    {CacheRow(j.key, j.cache_rowHash, j.loadedTime, j.deletedTime)
        : j \in {x \in joined : x.fromPayload = NULL}}

\* line 226: now - loadedTime.cast(LongType), in ticks; the cast drops the
\* fraction of a second
lived(loadedTime, t) == t - (loadedTime \div TicksPerSec) * TicksPerSec

\* faulty variant: no isNull branch; a new row's null hashMatch and null _lived fall
\* through every when() to otherwise(1000)
cachePriority_noNullCheck(j, t, p) ==
    IF j.loadedTime = NULL THEN 1000
    ELSE IF j.hashMatch = 0 THEN 1
    ELSE IF p.max_ttl > 0 /\ lived(j.loadedTime, t) > p.max_ttl * TicksPerSec THEN 2
    ELSE IF p.refresh_ttl > 0 /\ lived(j.loadedTime, t) > p.refresh_ttl * TicksPerSec THEN 3
    ELSE 1000

\* lines 228-246
cachePriority(j, t, p) ==
    IF j.loadedTime = NULL THEN 1
    ELSE IF j.hashMatch = 0 THEN 1
    ELSE IF p.max_ttl > 0 /\ lived(j.loadedTime, t) > p.max_ttl * TicksPerSec THEN 2
    ELSE IF p.refresh_ttl > 0 /\ lived(j.loadedTime, t) > p.refresh_ttl * TicksPerSec THEN 3
    ELSE 1000

\* lines 224-249
filtered_df(incoming, t, p) ==
    {[key |-> j.key, val |-> j.val, loadedTime |-> j.loadedTime,
      cachePriority |-> cachePriority(j, t, p)]
        : j \in {x \in incoming : cachePriority(x, t, p) < 100}}

\* faulty variant: the window orders by priority only
orderedBefore_priorityOnly(a, b) == a.cachePriority < b.cachePriority

\* line 253: Window.orderBy("__cachePriority", "loadedTime"), ascending, nulls first
orderedBefore(a, b) ==
    \/ a.cachePriority < b.cachePriority
    \/ a.cachePriority = b.cachePriority /\ a.loadedTime < b.loadedTime

\* line 255: the row numberings the window can produce; rows equal in both
\* sort columns get their numbers in an arbitrary order
row_numbers(rows) ==
    {rn \in [rows -> 1..Cardinality(rows)] :
        /\ \A a, b \in rows : a # b => rn[a] # rn[b]
        /\ \A a, b \in rows : orderedBefore(a, b) => rn[a] < rn[b]}

\* faulty variant: the rows of priority 3 are numbered among themselves
budget_filter_ownCount(rows, rn, p) ==
    {r \in rows :
        \/ r.cachePriority < 3
        \/ Cardinality({x \in rows : x.cachePriority = 3 /\ rn[x] < rn[r]})
              < p.refresh_row_limit}

\* faulty variant: the comparison with the row limit is strict
budget_filter_strict(rows, rn, p) ==
    {r \in rows : r.cachePriority < 3 \/ rn[r] < p.refresh_row_limit}

\* faulty variant: the budget is applied to the rows of every priority
budget_filter_all(rows, rn, p) == {r \in rows : rn[r] <= p.refresh_row_limit}

\* lines 256-262
budget_filter(rows, rn, p) ==
    {r \in rows : r.cachePriority < 3 \/ rn[r] <= p.refresh_row_limit}

\* faulty variant: the budget is applied whatever refresh_row_limit is
limited_df_always(rows, rn, p) == budget_filter(rows, rn, p)

\* lines 251-264
limited_df(rows, rn, p) ==
    IF p.refresh_row_limit > 0 THEN budget_filter(rows, rn, p) ELSE rows

\* lines 266-269
strip(rows) == {Row(r.key, r.val) : r \in rows}

Incoming(d, c) == joined_df_incoming(joined_df(df_hashed(filter_null_keys(d)), c))

\* ---- cache updates

\* faulty variant: the hash is taken over the payload columns only, not over the
\* columns of the incoming batch
prepare_written_cache_update_payloadHash(rows, t) ==
    {CacheRow(r.key, hash(0, r.val), t, NULL) : r \in rows}

\* _prepare_written_cache_update, lines 127-135
prepare_written_cache_update(rows, t) ==
    {CacheRow(r.key, hash(r.key, r.val), t, NULL) : r \in rows}

\* faulty variant: the update selects the key and the deletion time only, so
\* the merge overwrites hash and loadedTime with nulls
prepare_deleted_cache_update_keyOnly(rows, t) ==
    {CacheRow(r.key, NULL, NULL, t) : r \in rows}

\* _prepare_deleted_cache_update, lines 137-144
prepare_deleted_cache_update(rows, t) ==
    {CacheRow(r.key, r.rowHash, r.loadedTime, t) : r \in rows}

\* faulty variant: WHEN MATCHED updates rowHash and deletedTime only, so a
\* matched row keeps its loadedTime
load_cache_keepLoadedTime(table, source) ==
    {t \in table : \A x \in source : x.key # t.key}
    \cup {x \in source : \A t \in table : t.key # x.key}
    \cup {CacheRow(p[1].key, p[2].rowHash, p[1].loadedTime, p[2].deletedTime)
             : p \in {q \in table \X source : q[1].key = q[2].key}}

\* faulty variant: the MERGE has no WHEN MATCHED clause and only inserts
load_cache_insertOnly(table, source) ==
    table \cup {s \in source : \A t \in table : t.key # s.key}

\* _load_cache, lines 146-168: MERGE ... WHEN MATCHED THEN UPDATE SET *
\* WHEN NOT MATCHED THEN INSERT *
load_cache(table, source) ==
    {t \in table : \A s \in source : s.key # t.key} \cup source

\* ---- the save call

counters == <<n_rows_all_writes, n_rows_last_write>>
\* what a save call of a constructed loader, alone on its table and in its
\* session, leaves as it is
environment == <<history, version, views, merges, cls, columns, saves, commits, batch>>
inputs == <<df, tableAtStart, prev, calls>>
reduced == <<cache, now, to_be_written, to_be_deleted>>
results == <<df_written, df_deleted, written_update>>

\* this call does not repeat the previous one
NotAgain == [again |-> FALSE, wroteAll |-> FALSE, returned |-> FALSE, sameRows |-> FALSE]

\* an exception leaves save
Raise(step) ==
    /\ pc' = "raised"
    /\ raisedIn' = step

\* save, lines 72-80: the key columns are there; duplicates are dropped
Begin(d, again) ==
    /\ df' = d
    /\ tableAtStart' = cacheTable
    /\ cache' = {} /\ now' = 0 /\ to_be_written' = {} /\ to_be_deleted' = {}
    /\ df_written' = None /\ df_deleted' = None /\ written_update' = None
    /\ raisedIn' = ""
    /\ steps' = <<>>
    /\ prev' = again
    /\ pc' = "extract"
    /\ calls' = calls + 1
    /\ UNCHANGED environment
    /\ UNCHANGED <<cacheTable, clock, params, counters>>

Save ==
    /\ pc = "idle"
    /\ calls < MaxCalls
    /\ \E b \in SUBSET InRows : \E d \in dropDuplicates(b) : Begin(d, NotAgain)

\* faulty variant: the key columns are checked after the cache has been read
SaveWithoutKeyCols_afterExtract ==
    /\ pc = "idle"
    /\ calls < MaxCalls
    /\ calls' = calls + 1
    /\ tableAtStart' = cacheTable
    /\ cache' = extract_cache(cacheTable)
    /\ steps' = <<"extract_cache">>
    /\ Raise("save")
    /\ UNCHANGED environment
    /\ UNCHANGED <<cacheTable, clock, params, counters, df, prev, now, to_be_written,
                   to_be_deleted, results>>

\* save, lines 74-77: the batch lacks a key column
SaveWithoutKeyCols ==
    /\ pc = "idle"
    /\ calls < MaxCalls
    /\ calls' = calls + 1
    /\ tableAtStart' = cacheTable
    /\ Raise("save")
    /\ UNCHANGED environment
    /\ UNCHANGED <<cacheTable, clock, params, counters, df, prev, reduced, results,
                   steps>>

\* the write branch of the finished call committed every row it was offered
WroteAll == written_update.some /\ df_written.rows = to_be_written

\* save called again with the identical batch, right after the previous call:
\* any batch that the previous df is a deduplication of
SaveAgain ==
    /\ pc \in {"done", "raised"}
    /\ raisedIn # "save"
    /\ ~prev.again
    /\ calls < MaxCalls
    /\ \E b \in {x \in SUBSET InRows : df \in dropDuplicates(x)} :
          \E d \in dropDuplicates(b) :
             Begin(d, [again |-> TRUE, wroteAll |-> WroteAll,
                       returned |-> (pc = "done"), sameRows |-> (d = df)])

\* _extract_cache, lines 109-125
ExtractCache ==
    /\ pc = "extract"
    /\ cache' = extract_cache(cacheTable)
    /\ steps' = Append(steps, "extract_cache")
    /\ pc' = "reduce"
    /\ UNCHANGED environment
    /\ UNCHANGED <<cacheTable, clock, params, counters, inputs, now, to_be_written,
                   to_be_deleted, results, raisedIn>>

\* _discard_non_new_rows_against_cache, lines 170-272
Reduce ==
    /\ pc = "reduce"
    /\ now' = clock
    /\ LET joined == joined_df(df_hashed(filter_null_keys(df)), cache)
           rows == filtered_df(joined_df_incoming(joined), clock, params)
       IN  /\ \E rn \in row_numbers(rows) :
                 to_be_written' = strip(limited_df(rows, rn, params))
           /\ to_be_deleted' = to_be_deleted_of(joined)
    /\ steps' = Append(steps, "reduce")
    /\ pc' = "write"
    /\ UNCHANGED environment
    /\ UNCHANGED <<cacheTable, clock, params, counters, inputs, cache, results,
                   raisedIn>>

\* faulty variant: the exception of write_operation is swallowed and save goes on
WriteRaises_swallowed ==
    /\ pc = "write"
    /\ steps' = Append(steps, "write_operation")
    /\ raisedIn' = "write_operation"
    /\ pc' = "delete"
    /\ UNCHANGED environment
    /\ UNCHANGED <<cacheTable, clock, params, counters, inputs, reduced, results>>

\* save, line 87: write_operation raises
WriteRaises ==
    /\ pc = "write"
    /\ steps' = Append(steps, "write_operation")
    /\ Raise("write_operation")
    /\ UNCHANGED environment
    /\ UNCHANGED <<cacheTable, clock, params, counters, inputs, reduced, results>>

\* faulty variant: a write that returns nothing counts as a write of no rows
WriteReturnsNone_resetsCount ==
    /\ pc = "write"
    /\ steps' = Append(steps, "write_operation")
    /\ df_written' = None
    /\ n_rows_last_write' = 0
    /\ pc' = "delete"
    /\ UNCHANGED environment
    /\ UNCHANGED <<cacheTable, clock, params, n_rows_all_writes, inputs, reduced,
                   df_deleted, written_update, raisedIn>>

\* faulty variant: when nothing was written the delete branch is skipped
WriteReturnsNone_skipsDelete ==
    /\ pc = "write"
    /\ steps' = Append(steps, "write_operation")
    /\ df_written' = None
    /\ pc' = "done"
    /\ UNCHANGED environment
    /\ UNCHANGED <<cacheTable, clock, params, counters, inputs, reduced,
                   df_deleted, written_update, raisedIn>>

\* save, lines 87-88: write_operation returns None
WriteReturnsNone ==
    /\ pc = "write"
    /\ steps' = Append(steps, "write_operation")
    /\ df_written' = None
    /\ pc' = "delete"
    /\ UNCHANGED environment
    /\ UNCHANGED <<cacheTable, clock, params, counters, inputs, reduced,
                   df_deleted, written_update, raisedIn>>

\* save, lines 87-90: write_operation returns rows it was offered
WriteReturnsRows ==
    /\ pc = "write"
    /\ steps' = Append(steps, "write_operation")
    /\ \E w \in SUBSET to_be_written :
          /\ df_written' = Some(w)
          /\ n_rows_last_write' = Cardinality(w)
          /\ n_rows_all_writes' = n_rows_all_writes + Cardinality(w)
    /\ pc' = "load_written"
    /\ UNCHANGED environment
    /\ UNCHANGED <<cacheTable, clock, params, inputs, reduced, df_deleted,
                   written_update, raisedIn>>

\* faulty variant: the rows are stamped with the "now" of the reducer instead of
\* the time of the merge
LoadWritten_reducerTime ==
    /\ pc = "load_written"
    /\ steps' = Append(steps, "load_cache_written")
    /\ LET update == prepare_written_cache_update(df_written.rows, now)
       IN  /\ cacheTable' = load_cache(cacheTable, update)
           /\ written_update' = Some(update)
    /\ pc' = "delete"
    /\ UNCHANGED environment
    /\ UNCHANGED <<clock, params, counters, inputs, reduced, df_written,
                   df_deleted, raisedIn>>

\* save, lines 93-96
LoadWritten ==
    /\ pc = "load_written"
    /\ steps' = Append(steps, "load_cache_written")
    /\ LET update == prepare_written_cache_update(df_written.rows, clock)
       IN  /\ cacheTable' = load_cache(cacheTable, update)
           /\ written_update' = Some(update)
    /\ pc' = "delete"
    /\ UNCHANGED environment
    /\ UNCHANGED <<clock, params, counters, inputs, reduced, df_written,
                   df_deleted, raisedIn>>

\* save, line 96: the merge of the write branch fails in the store
LoadWrittenRaises ==
    /\ pc = "load_written"
    /\ steps' = Append(steps, "load_cache_written")
    /\ Raise("load_cache_written")
    /\ UNCHANGED environment
    /\ UNCHANGED <<cacheTable, clock, params, counters, inputs, reduced, results>>

\* faulty variant: the cache is updated for the delete candidates before
\* delete_operation runs
DeleteRaises_afterCacheUpdate ==
    /\ pc = "delete"
    /\ steps' = Append(steps, "delete_operation")
    /\ cacheTable' = load_cache(cacheTable,
                                prepare_deleted_cache_update(to_be_deleted, clock))
    /\ Raise("delete_operation")
    /\ UNCHANGED environment
    /\ UNCHANGED <<clock, params, counters, inputs, reduced, results>>

\* save, line 99: delete_operation raises
DeleteRaises ==
    /\ pc = "delete"
    /\ steps' = Append(steps, "delete_operation")
    /\ Raise("delete_operation")
    /\ UNCHANGED environment
    /\ UNCHANGED <<cacheTable, clock, params, counters, inputs, reduced, results>>

\* save, lines 99-100, 107: delete_operation returns None
DeleteReturnsNone ==
    /\ pc = "delete"
    /\ steps' = Append(steps, "delete_operation")
    /\ df_deleted' = None
    /\ pc' = "done"
    /\ UNCHANGED environment
    /\ UNCHANGED <<cacheTable, clock, params, counters, inputs, reduced,
                   df_written, written_update, raisedIn>>

\* save, lines 99-100: delete_operation returns rows it was offered
DeleteReturnsRows ==
    /\ pc = "delete"
    /\ steps' = Append(steps, "delete_operation")
    /\ \E d \in SUBSET to_be_deleted : df_deleted' = Some(d)
    /\ pc' = "load_deleted"
    /\ UNCHANGED environment
    /\ UNCHANGED <<cacheTable, clock, params, counters, inputs, reduced,
                   df_written, written_update, raisedIn>>

\* save, lines 101-107
LoadDeleted ==
    /\ pc = "load_deleted"
    /\ steps' = Append(steps, "load_cache_deleted")
    /\ cacheTable' = load_cache(cacheTable,
                                prepare_deleted_cache_update(df_deleted.rows, clock))
    /\ pc' = "done"
    /\ UNCHANGED environment
    /\ UNCHANGED <<clock, params, counters, inputs, reduced, results, raisedIn>>

\* faulty variant: both merges run in one transaction, which the failure rolls back
LoadDeletedRaises_rollback ==
    /\ pc = "load_deleted"
    /\ steps' = Append(steps, "load_cache_deleted")
    /\ cacheTable' = tableAtStart
    /\ Raise("load_cache_deleted")
    /\ UNCHANGED environment
    /\ UNCHANGED <<clock, params, counters, inputs, reduced, results>>

\* save, line 103: the merge of the delete branch fails in the store
LoadDeletedRaises ==
    /\ pc = "load_deleted"
    /\ steps' = Append(steps, "load_cache_deleted")
    /\ Raise("load_cache_deleted")
    /\ UNCHANGED environment
    /\ UNCHANGED <<cacheTable, clock, params, counters, inputs, reduced, results>>

\* the call is over (returned or raised); the caller goes on
Return ==
    /\ pc \in {"done", "raised"}
    /\ pc' = "idle"
    /\ df' = {} /\ tableAtStart' = {} /\ cache' = {}
    /\ now' = 0 /\ to_be_written' = {} /\ to_be_deleted' = {}
    /\ df_written' = None /\ df_deleted' = None /\ written_update' = None
    /\ raisedIn' = "" /\ prev' = NotAgain /\ steps' = <<>>
    /\ UNCHANGED environment
    /\ UNCHANGED <<cacheTable, clock, params, counters, calls>>

\* time passes; the call reads the clock in the reducer and in the two merges
Tick ==
    /\ pc \in {"idle", "reduce", "load_written", "load_deleted"}
    /\ clock < MaxClock
    /\ clock' = clock + 1
    /\ UNCHANGED environment
    /\ UNCHANGED <<cacheTable, params, counters, pc, inputs, reduced, results,
                   raisedIn, steps>>

\* ---- what lies around a save call

\* _load_cache, lines 148-151: the staging view names randint can draw
ViewNames == 0..MaxViewName

\* the session holds no temporary view; no _load_cache call is in flight
NoViews == [n \in ViewNames |-> None]
NoMerges == <<>>

\* no save calls run side by side; no MERGE has been committed
NoSaves == <<>>
NoCommits == <<>>

\* validate, lines 40-42: key_cols + cache_id_cols + [rowHash, loadedTime,
\* deletedTime], with key_cols = ["key"] and no cache_id_cols
RequiredColumns == {"key", "rowHash", "loadedTime", "deletedTime"}

\* a class by what validate looks at: whether it is CachedLoader itself, and
\* whether its own __dict__ holds write_operation and delete_operation
Class(b, w, d) == [base |-> b, write |-> w, delete |-> d]

\* a constructed loader, alone on its table and in its session: the versions
\* of the table, the views and the class play no part in its save calls
Alone ==
    /\ history = <<>> /\ version = 0
    /\ views = NoViews /\ merges = NoMerges
    /\ cls = Class(FALSE, TRUE, TRUE) /\ columns = RequiredColumns
    /\ saves = NoSaves /\ commits = NoCommits /\ batch = {}

\* no call is running
NoCall ==
    /\ df = {} /\ tableAtStart = {} /\ cache = {}
    /\ now = 0 /\ to_be_written = {} /\ to_be_deleted = {}
    /\ df_written = None /\ df_deleted = None /\ written_update = None
    /\ raisedIn = "" /\ prev = NotAgain /\ steps = <<>>

\* the policies with a ttl that is disabled or can run out before MaxClock
\* (a longer ttl never fires in these runs)
ParamSetsInTime ==
    {p \in ParamSets : /\ p.max_ttl * TicksPerSec < MaxClock
                       /\ p.refresh_ttl * TicksPerSec < MaxClock}

\* __init__, lines 26-32, on an empty cache table
Init ==
    /\ cacheTable = {}
    /\ clock = 0
    /\ params \in ParamSetsInTime
    /\ n_rows_all_writes = 0
    /\ n_rows_last_write = 0
    /\ pc = "idle"
    /\ NoCall
    /\ calls = 0
    /\ Alone

Next ==
    \/ Save
    \/ SaveWithoutKeyCols
    \/ SaveAgain
    \/ ExtractCache
    \/ Reduce
    \/ WriteRaises
    \/ WriteReturnsNone
    \/ WriteReturnsRows
    \/ LoadWritten
    \/ LoadWrittenRaises
    \/ DeleteRaises
    \/ DeleteReturnsNone
    \/ DeleteReturnsRows
    \/ LoadDeleted
    \/ LoadDeletedRaises
    \/ Return
    \/ Tick

Spec == Init /\ [][Next]_vars

\* ---- the reducer on its own: every deduplicated batch against every cache
\* table with one row per key, at every time and under every policy

\* what a cache table can hold for one key at time t: nothing, an active
\* row, or a row marked deleted
Absent == [rowHash |-> NULL, loadedTime |-> NULL, deletedTime |-> NULL]

CacheEntriesAt(t) ==
    {Absent, [rowHash |-> 0, loadedTime |-> 0, deletedTime |-> t]} \cup
    [rowHash : 0..(HashMod - 1), loadedTime : 0..t, deletedTime : {NULL}]

\* the tables with at most one row per key
CacheTablesAt(t) ==
    {{CacheRow(k, f[k].rowHash, f[k].loadedTime, f[k].deletedTime)
        : k \in {x \in Keys : f[x] # Absent}}
        : f \in [Keys -> CacheEntriesAt(t)]}

\* the policies of the reducer: a ttl or the row limit can be negative,
\* which disables it as 0 does
Policies == [max_ttl : -1..MaxTtl, refresh_ttl : -1..MaxTtl,
             refresh_row_limit : -1..MaxRowLimit]

InitReduce ==
    /\ clock \in Times
    /\ cacheTable \in CacheTablesAt(clock)
    /\ params \in Policies
    /\ n_rows_all_writes = 0
    /\ n_rows_last_write = 0
    /\ df \in UNION {dropDuplicates(b) : b \in SUBSET InRows}
    /\ tableAtStart = cacheTable
    /\ cache = extract_cache(cacheTable)
    /\ now = 0 /\ to_be_written = {} /\ to_be_deleted = {}
    /\ df_written = None /\ df_deleted = None /\ written_update = None
    /\ raisedIn = "" /\ prev = NotAgain
    /\ steps = <<"extract_cache">>
    /\ pc = "reduce"
    /\ calls = 1
    /\ Alone

NextReduce == Reduce

SpecReduce == InitReduce /\ [][NextReduce]_vars

\* ---- one save call on any cache table: what earlier calls can have left
\* (one row per key, active or marked deleted), any batch, any policy

InitCall ==
    /\ clock = MaxClock - 1
    /\ cacheTable \in CacheTablesAt(clock)
    /\ params \in ParamSetsInTime
    /\ n_rows_all_writes = 0
    /\ n_rows_last_write = 0
    /\ df \in UNION {dropDuplicates(b) : b \in SUBSET InRows}
    /\ tableAtStart = cacheTable
    /\ cache = {} /\ now = 0 /\ to_be_written = {} /\ to_be_deleted = {}
    /\ df_written = None /\ df_deleted = None /\ written_update = None
    /\ raisedIn = "" /\ prev = NotAgain
    /\ steps = <<>>
    /\ pc = "extract"
    /\ calls = 1
    /\ Alone

NextCall ==
    \/ ExtractCache
    \/ Reduce
    \/ WriteRaises
    \/ WriteReturnsNone
    \/ WriteReturnsRows
    \/ LoadWritten
    \/ LoadWrittenRaises
    \/ DeleteRaises
    \/ DeleteReturnsNone
    \/ DeleteReturnsRows
    \/ LoadDeleted
    \/ LoadDeletedRaises
    \/ Tick

SpecCall == InitCall /\ [][NextCall]_vars

\* ---- one caller saves the same batch again and again, with operations
\* that return what they are offered and a store that does not fail

\* a counter of the model that stops at its bound
UpTo(n, bound) == IF n < bound THEN n ELSE bound

\* save, lines 72-80, called with the batch when no call is running
LiveSave ==
    /\ pc \in {"idle", "done"}
    /\ \E d \in dropDuplicates(batch) : df' = d
    /\ prev' = NotAgain
    /\ tableAtStart' = cacheTable
    /\ cache' = {} /\ now' = 0 /\ to_be_written' = {} /\ to_be_deleted' = {}
    /\ df_written' = None /\ df_deleted' = None /\ written_update' = None
    /\ raisedIn' = ""
    /\ steps' = <<>>
    /\ pc' = "extract"
    /\ calls' = UpTo(calls + 1, MaxCalls)
    /\ UNCHANGED environment
    /\ UNCHANGED <<cacheTable, clock, params, counters>>

\* save, lines 87-90: write_operation returns every row it was offered; the
\* model counts the rows of all writes up to MaxCounted
LiveWrite ==
    /\ pc = "write"
    /\ steps' = Append(steps, "write_operation")
    /\ df_written' = Some(to_be_written)
    /\ n_rows_last_write' = Cardinality(to_be_written)
    /\ n_rows_all_writes' =
          UpTo(n_rows_all_writes + Cardinality(to_be_written), MaxCounted)
    /\ pc' = "load_written"
    /\ UNCHANGED environment
    /\ UNCHANGED <<cacheTable, clock, params, inputs, reduced, df_deleted,
                   written_update, raisedIn>>

\* the policies with the soft refresh and its row limit enabled
SoftRefreshPolicies ==
    {p \in ParamSetsInTime : p.refresh_ttl > 0 /\ p.refresh_row_limit > 0}

\* a loader on any cache table, some time after its rows were loaded, and
\* the batch its caller will save
InitLive ==
    /\ clock = MaxClock - 1
    /\ cacheTable \in CacheTablesAt(0)
    /\ params \in SoftRefreshPolicies
    /\ n_rows_all_writes = 0
    /\ n_rows_last_write = 0
    /\ pc = "idle"
    /\ NoCall
    /\ calls = 0
    /\ history = <<>> /\ version = 0
    /\ views = NoViews /\ merges = NoMerges
    /\ cls = Class(FALSE, TRUE, TRUE) /\ columns = RequiredColumns
    /\ saves = NoSaves /\ commits = NoCommits
    /\ batch \in SUBSET {r \in InRows : r.key # NULL}

\* the steps of the save calls
LiveCall ==
    \/ LiveSave
    \/ ExtractCache
    \/ Reduce
    \/ LiveWrite
    \/ LoadWritten
    \/ DeleteReturnsNone
    \/ DeleteReturnsRows
    \/ LoadDeleted

NextLive ==
    \/ LiveCall
    \/ Tick

\* the caller keeps calling and every call keeps running
SpecLive == InitLive /\ [][NextLive]_vars /\ WF_vars(LiveCall)

\* ---- _extract_cache beside another writer of the cache table

\* lines 112-117: DESCRIBE HISTORY ... LIMIT 1 gives the newest version;
\* version numbers start at 0
current_version(hist) == Len(hist) - 1

\* faulty variant: the query names no version and reads the table as it is
table_as_of_latest(hist, v) == hist[Len(hist)]

\* line 119: SELECT * FROM ... VERSION AS OF version
table_as_of(hist, v) == hist[v + 1]

\* lines 112-117: the version number is read
PinVersion ==
    /\ pc = "extract"
    /\ version' = current_version(history)
    /\ tableAtStart' = cacheTable
    /\ steps' = Append(steps, "describe_history")
    /\ pc' = "extract_rows"
    /\ UNCHANGED <<cacheTable, clock, params, counters, df, prev, calls, reduced,
                   results, raisedIn, history, views, merges, cls, columns, saves,
                   commits, batch>>

\* lines 118-125: the rows are read, whenever Spark evaluates the frame
ReadPinned ==
    /\ pc = "extract_rows"
    /\ cache' = extract_cache(table_as_of(history, version))
    /\ steps' = Append(steps, "extract_cache")
    /\ pc' = "reduce"
    /\ UNCHANGED environment
    /\ UNCHANGED <<cacheTable, clock, params, counters, inputs, now, to_be_written,
                   to_be_deleted, results, raisedIn>>

\* what another writer can merge into the table: one row per key
MergeSources == CacheTablesAt(0) \ {{}}

\* another writer commits a merge, which makes a new version of the table
OtherWriterMerges ==
    /\ pc \in {"extract", "extract_rows", "reduce"}
    /\ Len(history) < MaxVersions
    /\ \E source \in MergeSources :
          /\ cacheTable' = load_cache(cacheTable, source)
          /\ history' = Append(history, load_cache(cacheTable, source))
    /\ steps' = Append(steps, "other_merge")
    /\ UNCHANGED <<clock, params, counters, pc, inputs, reduced, results, raisedIn,
                   version, views, merges, cls, columns, saves, commits, batch>>

\* a save call at the start of _extract_cache, on a table of one version
InitPin ==
    /\ clock = 0
    /\ params = [max_ttl |-> 0, refresh_ttl |-> 0, refresh_row_limit |-> 0]
    /\ cacheTable \in CacheTablesAt(0)
    /\ history = <<cacheTable>>
    /\ version = 0
    /\ n_rows_all_writes = 0
    /\ n_rows_last_write = 0
    /\ df \in UNION {dropDuplicates(b) : b \in SUBSET InRows}
    /\ tableAtStart = cacheTable
    /\ cache = {} /\ now = 0 /\ to_be_written = {} /\ to_be_deleted = {}
    /\ df_written = None /\ df_deleted = None /\ written_update = None
    /\ raisedIn = "" /\ prev = NotAgain
    /\ steps = <<>>
    /\ pc = "extract"
    /\ calls = 1
    /\ views = NoViews /\ merges = NoMerges
    /\ cls = Class(FALSE, TRUE, TRUE) /\ columns = RequiredColumns
    /\ saves = NoSaves /\ commits = NoCommits /\ batch = {}

NextPin ==
    \/ PinVersion
    \/ ReadPinned
    \/ OtherWriterMerges
    \/ Reduce

SpecPin == InitPin /\ [][NextPin]_vars

\* ---- _load_cache calls interleaved in one Spark session

MergeCalls == {"a", "b"}

\* a _load_cache call by where it stands: at "start", "named" (lines 148-166
\* done), "staged" (line 167 done) or "merged" (line 168 done); applied is
\* what its MERGE read from the view
MergeCall(at, rows, name, applied) ==
    [at |-> at, cache_to_load |-> rows, view_name |-> name, applied |-> applied]

\* lines 148-151: randint draws the number in the name of the view
ChooseViewName(i) ==
    /\ merges[i].at = "start"
    /\ \E n \in ViewNames :
          merges' = [merges EXCEPT ![i].at = "named", ![i].view_name = n]
    /\ UNCHANGED <<cacheTable, clock, params, counters, pc, inputs, reduced, results,
                   raisedIn, steps, history, version, views, cls, columns, saves,
                   commits, batch>>

\* line 167: cache_to_load.createOrReplaceTempView(view_name)
CreateView(i) ==
    /\ merges[i].at = "named"
    /\ views' = [views EXCEPT ![merges[i].view_name] = Some(merges[i].cache_to_load)]
    /\ merges' = [merges EXCEPT ![i].at = "staged"]
    /\ UNCHANGED <<cacheTable, clock, params, counters, pc, inputs, reduced, results,
                   raisedIn, steps, history, version, cls, columns, saves, commits,
                   batch>>

\* line 168: the MERGE statement reads the view that has the name now; its
\* commit makes a new version of the table
RunMerge(i) ==
    /\ merges[i].at = "staged"
    /\ LET source == views[merges[i].view_name].rows
       IN  /\ cacheTable' = load_cache(cacheTable, source)
           /\ history' = Append(history, load_cache(cacheTable, source))
           /\ commits' = Append(commits, source)
           /\ merges' = [merges EXCEPT ![i].at = "merged", ![i].applied = source]
    /\ UNCHANGED <<clock, params, counters, pc, inputs, reduced, results,
                   raisedIn, steps, version, views, cls, columns, saves, batch>>

\* two calls of _load_cache are about to run in one session
InitStage ==
    /\ clock = 0
    /\ params = [max_ttl |-> 0, refresh_ttl |-> 0, refresh_row_limit |-> 0]
    /\ cacheTable \in CacheTablesAt(0)
    /\ n_rows_all_writes = 0
    /\ n_rows_last_write = 0
    /\ pc = "load_cache"
    /\ NoCall
    /\ calls = 0
    /\ history = <<cacheTable>> /\ version = 0
    /\ views = NoViews
    /\ merges \in [MergeCalls -> {MergeCall("start", rows, NULL, {}) : rows \in MergeSources}]
    /\ cls = Class(FALSE, TRUE, TRUE) /\ columns = RequiredColumns
    /\ saves = NoSaves /\ commits = NoCommits /\ batch = {}

NextStage ==
    \/ \E i \in MergeCalls : ChooseViewName(i)
    \/ \E i \in MergeCalls : CreateView(i)
    \/ \E i \in MergeCalls : RunMerge(i)

SpecStage == InitStage /\ [][NextStage]_vars

\* ---- two save calls side by side on one cache table, in one Spark session

\* a save call by where it stands, with its batch, the version it pinned
\* and the frames of lines 82-84
Saver(at, d, v, c, w, del) ==
    [pc |-> at, df |-> d, version |-> v, cache |-> c, to_be_written |-> w,
     to_be_deleted |-> del]

\* the policy of the racing calls: no ttl, no row limit
NoRefresh == [max_ttl |-> 0, refresh_ttl |-> 0, refresh_row_limit |-> 0]

\* _extract_cache, lines 112-117: call i reads the version number
RacePin(i) ==
    /\ saves[i].pc = "extract"
    /\ saves' = [saves EXCEPT ![i].pc = "extract_rows",
                              ![i].version = current_version(history)]
    /\ UNCHANGED <<cacheTable, clock, params, counters, pc, inputs, reduced, results,
                   raisedIn, steps, history, version, views, merges, cls, columns,
                   commits, batch>>

\* _extract_cache, lines 118-125: call i reads the rows of its version
RaceRead(i) ==
    /\ saves[i].pc = "extract_rows"
    /\ saves' = [saves EXCEPT
                   ![i].pc = "reduce",
                   ![i].cache = extract_cache(table_as_of(history, saves[i].version))]
    /\ UNCHANGED <<cacheTable, clock, params, counters, pc, inputs, reduced, results,
                   raisedIn, steps, history, version, views, merges, cls, columns,
                   commits, batch>>

\* save, line 84: call i reduces its batch against its cache frame
RaceReduce(i) ==
    /\ saves[i].pc = "reduce"
    /\ LET joined == joined_df(df_hashed(filter_null_keys(saves[i].df)), saves[i].cache)
           rows == filtered_df(joined_df_incoming(joined), clock, params)
       IN  \E rn \in row_numbers(rows) :
              saves' = [saves EXCEPT
                          ![i].pc = "write",
                          ![i].to_be_written = strip(limited_df(rows, rn, params)),
                          ![i].to_be_deleted = to_be_deleted_of(joined)]
    /\ UNCHANGED <<cacheTable, clock, params, counters, pc, inputs, reduced, results,
                   raisedIn, steps, history, version, views, merges, cls, columns,
                   commits, batch>>

\* save, lines 87-96: write_operation of call i returns the rows offered and
\* _load_cache is called with the update for them
RaceWrite(i) ==
    /\ saves[i].pc = "write"
    /\ saves' = [saves EXCEPT ![i].pc = "load_written"]
    /\ merges' = [merges EXCEPT
                    ![i] = MergeCall("start",
                                     prepare_written_cache_update(
                                         saves[i].to_be_written, clock),
                                     NULL, {})]
    /\ UNCHANGED <<cacheTable, clock, params, counters, pc, inputs, reduced, results,
                   raisedIn, steps, history, version, views, cls, columns, commits,
                   batch>>

\* save, lines 99-103: the merge of the write branch is through;
\* delete_operation of call i returns the rows offered and _load_cache is
\* called with the update for them
RaceDelete(i) ==
    /\ saves[i].pc = "load_written"
    /\ merges[i].at = "merged"
    /\ saves' = [saves EXCEPT ![i].pc = "load_deleted"]
    /\ merges' = [merges EXCEPT
                    ![i] = MergeCall("start",
                                     prepare_deleted_cache_update(
                                         saves[i].to_be_deleted, clock),
                                     NULL, {})]
    /\ UNCHANGED <<cacheTable, clock, params, counters, pc, inputs, reduced, results,
                   raisedIn, steps, history, version, views, cls, columns, commits,
                   batch>>

\* save, line 107: the merge of the delete branch is through and call i returns
RaceReturn(i) ==
    /\ saves[i].pc = "load_deleted"
    /\ merges[i].at = "merged"
    /\ saves' = [saves EXCEPT ![i].pc = "done"]
    /\ UNCHANGED <<cacheTable, clock, params, counters, pc, inputs, reduced, results,
                   raisedIn, steps, history, version, views, merges, cls, columns,
                   commits, batch>>

\* the batches of the racing calls: rows with a key, one row per key
RaceBatches == {d \in UNION {dropDuplicates(b) : b \in SUBSET InRows} :
                   d # {} /\ \A r \in d : r.key # NULL}

\* two save calls have been made on a table of one version, some time
\* after its rows were loaded
InitRace ==
    /\ clock = 1
    /\ params = NoRefresh
    /\ cacheTable \in CacheTablesAt(0)
    /\ n_rows_all_writes = 0
    /\ n_rows_last_write = 0
    /\ pc = "race"
    /\ NoCall
    /\ calls = 0
    /\ history = <<cacheTable>> /\ version = 0
    /\ views = NoViews
    /\ merges = [i \in MergeCalls |-> MergeCall("merged", {}, NULL, {})]
    /\ cls = Class(FALSE, TRUE, TRUE) /\ columns = RequiredColumns
    /\ saves \in [MergeCalls -> {Saver("extract", d, 0, {}, {}, {}) : d \in RaceBatches}]
    /\ commits = NoCommits /\ batch = {}

NextRace ==
    \/ \E i \in MergeCalls : RacePin(i)
    \/ \E i \in MergeCalls : RaceRead(i)
    \/ \E i \in MergeCalls : RaceReduce(i)
    \/ \E i \in MergeCalls : RaceWrite(i)
    \/ \E i \in MergeCalls : ChooseViewName(i)
    \/ \E i \in MergeCalls : CreateView(i)
    \/ \E i \in MergeCalls : RunMerge(i)
    \/ \E i \in MergeCalls : RaceDelete(i)
    \/ \E i \in MergeCalls : RaceReturn(i)

SpecRace == InitRace /\ [][NextRace]_vars

\* ---- construction of a loader

\* the columns a cache table can have
ColumnNames == RequiredColumns \cup {"id", "other"}

\* CachedLoader itself, whose __dict__ holds both methods, and the subclasses
\* by the methods they define
Classes == {Class(TRUE, TRUE, TRUE)} \cup {Class(FALSE, w, d) : w, d \in BOOLEAN}

\* faulty variant: a class must define exactly one of the two methods
overloaded_exactlyOne(c) == c.write # c.delete

\* validate, lines 53-55: write_overloaded or delete_overloaded
overloaded(c) == c.write \/ c.delete

\* faulty variant: the check of line 60 is missing
validate_noClassCheck(cols, c) ==
    IF cols # RequiredColumns THEN "validate_schema"
    ELSE IF ~overloaded(c) THEN "validate_overload"
    ELSE ""

\* validate, lines 34-61: the check that raises AssertionError, "" when none
validate(cols, c) ==
    IF cols # RequiredColumns THEN "validate_schema"
    ELSE IF ~overloaded(c) THEN "validate_overload"
    ELSE IF c.base THEN "validate_class"
    ELSE ""

\* __init__, lines 26-32: validate passes and the counters are set
Construct ==
    /\ pc = "new"
    /\ validate(columns, cls) = ""
    /\ n_rows_all_writes' = 0
    /\ n_rows_last_write' = 0
    /\ pc' = "idle"
    /\ UNCHANGED environment
    /\ UNCHANGED <<cacheTable, clock, params, inputs, reduced, results, raisedIn, steps>>

\* __init__, line 29: validate raises and no loader comes to be
ConstructRaises ==
    /\ pc = "new"
    /\ validate(columns, cls) # ""
    /\ raisedIn' = validate(columns, cls)
    /\ pc' = "rejected"
    /\ UNCHANGED environment
    /\ UNCHANGED <<cacheTable, clock, params, counters, inputs, reduced, results, steps>>

\* a class and a cache table, before __init__ runs
InitConstruct ==
    /\ clock = 0
    /\ params \in ParamSets
    /\ cacheTable = {}
    /\ n_rows_all_writes = NULL
    /\ n_rows_last_write = NULL
    /\ pc = "new"
    /\ NoCall
    /\ calls = 0
    /\ history = <<>> /\ version = 0
    /\ views = NoViews /\ merges = NoMerges
    /\ cls \in Classes
    /\ columns \in SUBSET ColumnNames
    /\ saves = NoSaves /\ commits = NoCommits /\ batch = {}

NextConstruct ==
    \/ Construct
    \/ ConstructRaises
    \/ Save

SpecConstruct == InitConstruct /\ [][NextConstruct]_vars

\* ---- properties of the reducer

\* the active view of a cache table, as the specification defines it
ActiveRows(table) ==
    {c \in table : c.deletedTime = NULL /\ c.rowHash # NULL /\ c.loadedTime # NULL}

\* the incoming rows of the running call with the priority the reducer gave them
Classified ==
    {[key |-> j.key, val |-> j.val, loadedTime |-> j.loadedTime,
      cachePriority |-> cachePriority(j, now, params)] : j \in Incoming(df, cache)}

Written(rows) == {r \in rows : Row(r.key, r.val) \in to_be_written}

Min(a, b) == IF a < b THEN a ELSE b
Max(a, b) == IF a > b THEN a ELSE b

\* C1: whatever max_ttl, refresh_ttl and refresh_row_limit are, every incoming
\* row with a non-null key that has no row in the active cache is in
\* to_be_written when write_operation is called.
C1_NewKeysWritten ==
    pc = "write" =>
        \A r \in df :
            (r.key # NULL /\ \A c \in ActiveRows(tableAtStart) : c.key # r.key)
                => r \in to_be_written

\* C1 witness: a budget of one row, two new keys offered, both written
C1_Witness ==
    /\ pc = "write"
    /\ params.refresh_row_limit = 1 /\ params.max_ttl > 0 /\ params.refresh_ttl > 0
    /\ \E r1, r2 \in df :
          /\ r1.key # NULL /\ r2.key # NULL /\ r1.key # r2.key
          /\ \A c \in ActiveRows(tableAtStart) : c.key # r1.key /\ c.key # r2.key
          /\ \E c \in tableAtStart : c.key = r1.key /\ c.deletedTime # NULL
          /\ {r1, r2} \subseteq to_be_written

\* C2: every incoming row whose key is in the active cache with another hash
\* is in to_be_written; the row budget never removes it.
C2_MismatchWritten ==
    pc = "write" =>
        \A r \in df : \A c \in ActiveRows(tableAtStart) :
            (c.key = r.key /\ c.rowHash # hash(r.key, r.val)) => r \in to_be_written

\* C2 witness: a budget of one row and two mismatching rows, both written
C2_Witness ==
    /\ pc = "write"
    /\ params.refresh_row_limit = 1
    /\ \E r1, r2 \in df : \E c1, c2 \in ActiveRows(tableAtStart) :
          /\ r1.key # r2.key
          /\ c1.key = r1.key /\ c1.rowHash # hash(r1.key, r1.val)
          /\ c2.key = r2.key /\ c2.rowHash # hash(r2.key, r2.val)
          /\ {r1, r2} \subseteq to_be_written

\* C3: to_be_deleted is exactly the active cache rows whose key is not a key
\* of the incoming batch, with the values the cache stores, and no key is both
\* in to_be_written and in to_be_deleted.
C3_DeleteDetection ==
    pc = "write" =>
        /\ to_be_deleted =
              {c \in ActiveRows(tableAtStart) : \A r \in df : r.key # c.key}
        /\ KeysOf(to_be_written) \cap KeysOf(to_be_deleted) = {}

\* C3 witness: one key to write, one active key to delete, and the batch
\* holds a null-key row
C3_Witness ==
    /\ pc = "write"
    /\ to_be_written # {}
    /\ to_be_deleted # {}
    /\ \E r \in df : r.key = NULL
    /\ \E c \in tableAtStart : c.deletedTime # NULL

\* C5 (as claimed): with max_ttl > 0 and refresh_ttl disabled, a row whose hash
\* equals the cached hash is written if and only if now - loadedTime is more
\* than max_ttl seconds.
C5_MaxTtlExactAge ==
    (pc = "write" /\ params.max_ttl > 0 /\ params.refresh_ttl <= 0) =>
        \A r \in df : \A c \in ActiveRows(tableAtStart) :
            (c.key = r.key /\ c.rowHash = hash(r.key, r.val)) =>
                (r \in to_be_written <=>
                    now - c.loadedTime > params.max_ttl * TicksPerSec)

\* the rows the reducer classified priority 3, and those of priority 1 and 2
SoftRefresh == {r \in Classified : r.cachePriority = 3}
Forced == {r \in Classified : r.cachePriority < 3}

\* C6 (as claimed): with refresh_row_limit = L > 0, exactly min(L, N) of the N
\* priority-3 rows are written, the oldest ones, however many rows of
\* priority 1 and 2 the batch holds.
C6_BudgetOfItsOwn ==
    (pc = "write" /\ params.refresh_row_limit > 0) =>
        /\ Cardinality(Written(SoftRefresh)) =
              Min(params.refresh_row_limit, Cardinality(SoftRefresh))
        /\ \A a \in SoftRefresh \ Written(SoftRefresh) : \A b \in Written(SoftRefresh) :
              ~(a.loadedTime < b.loadedTime)

\* C6 (amended): with refresh_row_limit = L > 0, M rows of priority 1 and 2
\* and N rows of priority 3, exactly min(max(L - M, 0), N) of the priority-3
\* rows are written, and no priority-3 row left out was loaded before one
\* that is written.
C6_BudgetShared ==
    (pc = "write" /\ params.refresh_row_limit > 0) =>
        /\ Cardinality(Written(SoftRefresh)) =
              Min(Max(params.refresh_row_limit - Cardinality(Forced), 0),
                  Cardinality(SoftRefresh))
        /\ \A a \in SoftRefresh \ Written(SoftRefresh) : \A b \in Written(SoftRefresh) :
              ~(a.loadedTime < b.loadedTime)

\* C6 witness: the budget admits one priority-3 row and leaves out a newer one
C6_Witness ==
    /\ pc = "write"
    /\ params.refresh_row_limit > 0
    /\ \E a \in SoftRefresh \ Written(SoftRefresh) : \E b \in Written(SoftRefresh) :
          b.loadedTime < a.loadedTime

\* C23: with refresh_row_limit = L > 0, a priority-3 row is written only if
\* the rows ranked before it (those of priority 1 and 2 and the priority-3
\* rows loaded earlier) are fewer than L; so to_be_written never holds more
\* rows than max(L, number of rows of priority 1 and 2).
C23_SharedBudget ==
    (pc = "write" /\ params.refresh_row_limit > 0) =>
        /\ \A r \in Written(SoftRefresh) :
              Cardinality(Forced)
                + Cardinality({x \in SoftRefresh : x.loadedTime < r.loadedTime})
                  < params.refresh_row_limit
        /\ Cardinality(to_be_written) <=
              Max(params.refresh_row_limit, Cardinality(Forced))

\* C23 witness: a row of priority 1 or 2 has used up the budget and the
\* priority-3 row of the batch is left out
C23_Witness ==
    /\ pc = "write"
    /\ params.refresh_row_limit > 0
    /\ Cardinality(Forced) = params.refresh_row_limit
    /\ SoftRefresh # {}
    /\ Written(SoftRefresh) = {}
    /\ Written(Forced) = Forced

\* what the reducer can return as to_be_written for batch d, cache c, time t
\* and policy p: one result for each numbering the window can produce
ReducerOutcomes(d, c, t, p) ==
    {strip(limited_df(filtered_df(Incoming(d, c), t, p), rn, p))
        : rn \in row_numbers(filtered_df(Incoming(d, c), t, p))}

\* C24 (as claimed): for a fixed batch, cache snapshot, time and policy the
\* reducer has one possible to_be_written; two runs on the same inputs admit
\* the same rows, also when priority-3 rows share a loadedTime and the budget
\* admits only some of them.
C24_DeterministicSelection ==
    pc = "write" =>
        ReducerOutcomes(df, cache, now, params) = {to_be_written}

\* a ttl rule as the specification states it, on the age now - loadedTime:
\* enabled by ttl > 0, it fires when the age is more than ttl seconds
RuleFires(ttl, c) == ttl > 0 /\ now - c.loadedTime > ttl * TicksPerSec

\* the incoming rows that are new or differ from their active cache row
NewOrMismatched ==
    {r \in filter_null_keys(df) :
        \A c \in ActiveRows(tableAtStart) :
            c.key = r.key => c.rowHash # hash(r.key, r.val)}

\* C19 (as claimed): an incoming row with the hash of its active cache row,
\* for which no enabled ttl rule fires, is not in to_be_written; with
\* max_ttl <= 0 and refresh_ttl <= 0 to_be_written is exactly the new and the
\* mismatched rows, whatever the age of the cache rows.
C19_UpToDateExcluded ==
    pc = "write" =>
        /\ \A r \in df : \A c \in ActiveRows(tableAtStart) :
              (/\ c.key = r.key
               /\ c.rowHash = hash(r.key, r.val)
               /\ ~RuleFires(params.max_ttl, c)
               /\ ~RuleFires(params.refresh_ttl, c)) => r \notin to_be_written
        /\ (params.max_ttl <= 0 /\ params.refresh_ttl <= 0) =>
              to_be_written = NewOrMismatched

\* the second half of C19 alone: with both ttl rules disabled only new and
\* mismatched rows are written
C19_BothTtlDisabled ==
    (pc = "write" /\ params.max_ttl <= 0 /\ params.refresh_ttl <= 0) =>
        to_be_written = NewOrMismatched

\* C26: with refresh_row_limit <= 0 every row the reducer classified
\* priority 3 is in to_be_written, however many there are; so is every row
\* with the hash of its active cache row whose age now - loadedTime is more
\* than refresh_ttl > 0.
C26_BudgetDisabled ==
    (pc = "write" /\ params.refresh_row_limit <= 0) =>
        /\ Written(SoftRefresh) = SoftRefresh
        /\ \A r \in df : \A c \in ActiveRows(tableAtStart) :
              (/\ c.key = r.key
               /\ c.rowHash = hash(r.key, r.val)
               /\ RuleFires(params.refresh_ttl, c)) => r \in to_be_written

\* C26 witness: under a negative row limit every row of the batch is of
\* priority 3 and all are written
C26_Witness ==
    /\ pc = "write"
    /\ params.refresh_row_limit < 0
    /\ Cardinality(SoftRefresh) = NumKeys
    /\ to_be_written = strip(SoftRefresh)

\* ---- properties of save

StepsTaken == {steps[i] : i \in 1..Len(steps)}

\* no ttl rule fires for a row of the running call
NoTtlFires == \A r \in Classified : r.cachePriority \notin {2, 3}

\* C4 (as claimed): save repeated with the identical batch right after a call
\* whose write_operation returned every row offered, with no ttl rule firing,
\* offers nothing to write.
C4_Idempotent ==
    (pc = "write" /\ prev.again /\ prev.wroteAll /\ prev.returned /\ NoTtlFires)
        => to_be_written = {}

\* C4 (amended): the same, for the batches of which dropDuplicates keeps the
\* same row per key in both calls, as it does when no two rows share a key.
C4_IdempotentSameRows ==
    (pc = "write" /\ prev.again /\ prev.wroteAll /\ prev.sameRows /\ NoTtlFires)
        => to_be_written = {}

\* C4 witness: the repeated call finds both rows of its batch in the cache
\* and offers nothing
C4_Witness ==
    /\ pc = "write" /\ prev.again /\ prev.wroteAll /\ prev.sameRows /\ NoTtlFires
    /\ prev.returned
    /\ to_be_written = {}
    /\ Cardinality(filter_null_keys(df)) = 2
    /\ \A r \in filter_null_keys(df) : \E c \in cache : c.key = r.key
    /\ n_rows_all_writes = 2

\* C7: when write_operation raises, save ends with the exception, no merge
\* and no delete_operation run in that call, and the cache table is what it
\* was when the call started.
C7_WriteFailureContained ==
    raisedIn = "write_operation" =>
        /\ pc = "raised"
        /\ cacheTable = tableAtStart
        /\ StepsTaken \cap {"load_cache_written", "delete_operation",
                            "load_cache_deleted"} = {}

\* C7 witness: write_operation raised with rows to write and rows to delete
C7_Witness ==
    /\ raisedIn = "write_operation"
    /\ to_be_written # {}
    /\ to_be_deleted # {}

\* C8: when delete_operation or the merge of the delete branch raises, every
\* row write_operation returned has its one cache row with the hash of the
\* written row, the loadedTime of the write merge and a null deletedTime.
C8_WrittenCacheKept ==
    (raisedIn \in {"delete_operation", "load_cache_deleted"} /\ df_written.some) =>
        /\ written_update.some
        /\ \A r \in df_written.rows :
              \E c \in cacheTable :
                 /\ c \in written_update.rows
                 /\ c.key = r.key
                 /\ c.rowHash = hash(r.key, r.val)
                 /\ c.loadedTime >= now
                 /\ c.deletedTime = NULL
                 /\ \A c2 \in cacheTable : c2.key = r.key => c2 = c

\* C8 witness: the merge of the delete branch raised after rows were written
C8_Witness ==
    /\ raisedIn = "load_cache_deleted"
    /\ df_written.rows # {}
    /\ df_deleted.rows # {}

\* the table after the write branch alone committed, at time t
AfterWriteBranch(t) ==
    {c \in tableAtStart : \A r \in df_written.rows : r.key # c.key}
    \cup {CacheRow(r.key, hash(r.key, r.val), t, NULL) : r \in df_written.rows}

\* C9: after a save that raised, the cache table is either what it was when
\* the call started, or that table with every written row merged in full and
\* no row changed for the delete candidates.
C9_FailedSaveStates ==
    pc = "raised" =>
        \/ cacheTable = tableAtStart
        \/ /\ written_update.some
           /\ \E t \in now..clock : cacheTable = AfterWriteBranch(t)

\* C9 witness: a failed call that has committed its write branch and had
\* rows to delete
C9_Witness ==
    /\ pc = "raised"
    /\ cacheTable # tableAtStart
    /\ to_be_deleted # {}

\* C10: the cache table holds at most one row per key.
C10_OneRowPerKey == \A a, b \in cacheTable : a.key = b.key => a = b

\* C10 witness: after two calls, one key is marked deleted and the other
\* has been merged again
C10_Witness ==
    /\ calls = 2
    /\ \E a, b \in cacheTable :
          /\ a.key # b.key
          /\ a.deletedTime # NULL
          /\ b.deletedTime = NULL
          /\ b.loadedTime > a.loadedTime

\* C15: when the batch lacks a key column, save raises before it reads the
\* cache and before write_operation or delete_operation is called; the cache
\* table and the two write counters are left as they were.
C15_MissingKeyColumns ==
    [][raisedIn' = "save" =>
          /\ pc' = "raised"
          /\ steps' = <<>>
          /\ cache' = {}
          /\ cacheTable' = cacheTable
          /\ n_rows_all_writes' = n_rows_all_writes
          /\ n_rows_last_write' = n_rows_last_write]_vars

\* C15 witness: save raised for a batch without key columns on a table
\* that holds rows, after an earlier call wrote rows
C15_Witness ==
    /\ raisedIn = "save"
    /\ pc = "raised"
    /\ cacheTable # {}
    /\ n_rows_last_write > 0

\* C16: when write_operation returns None, the write branch merges nothing:
\* the step leaves the cache table and both counters as they were and goes
\* on to delete_operation, and a call that ends this way has called
\* delete_operation and has run no merge for written rows.
C16_WriteReturnsNone ==
    /\ [][(pc = "write" /\ pc' # "raised" /\ ~df_written'.some) =>
             /\ pc' = "delete"
             /\ cacheTable' = cacheTable
             /\ written_update' = None
             /\ n_rows_all_writes' = n_rows_all_writes
             /\ n_rows_last_write' = n_rows_last_write]_vars
    /\ []((pc = "done" /\ ~df_written.some) =>
             /\ "delete_operation" \in StepsTaken
             /\ "load_cache_written" \notin StepsTaken
             /\ ~written_update.some)

\* C16 witness: a call that offered rows to write and got None back has
\* gone on to delete rows; the counters still show the write of the call before
C16_Witness ==
    /\ pc = "done"
    /\ ~df_written.some
    /\ to_be_written # {}
    /\ df_deleted.some /\ df_deleted.rows # {}
    /\ n_rows_last_write > 0

\* the steps of save in the order of lines 82-103
PhaseOrder == <<"extract_cache", "reduce", "write_operation", "load_cache_written",
                "delete_operation", "load_cache_deleted">>

\* PhaseOrder without the steps in skip
Without(skip) == SelectSeq(PhaseOrder, LAMBDA x : x \notin skip)

\* the step sequences that keep the order: a call runs each of the two
\* merges or not, and can end after any step
OrderedRuns ==
    UNION {{SubSeq(Without(skip), 1, n) : n \in 0..Len(Without(skip))}
              : skip \in SUBSET {"load_cache_written", "load_cache_deleted"}}

\* C17: the steps of one save are taken in the order extract cache, reduce,
\* write_operation, merge for written rows, delete_operation, merge for
\* deleted rows, none twice; every call whose write branch did not raise
\* calls delete_operation, whether or not write_operation returned rows, and
\* only after the merge for the rows write_operation returned has committed.
C17_PhaseOrdering ==
    /\ steps \in OrderedRuns
    /\ pc = "done" => "delete_operation" \in StepsTaken
    /\ (pc = "raised" /\ raisedIn \in {"delete_operation", "load_cache_deleted"})
          => "delete_operation" \in StepsTaken
    /\ ("delete_operation" \in StepsTaken /\ df_written.some) =>
          /\ "load_cache_written" \in StepsTaken
          /\ written_update.some
          /\ KeysOf(written_update.rows) = KeysOf(df_written.rows)

\* C17 witness: a call that took all six steps, with rows written and rows
\* deleted
C17_Witness ==
    /\ pc = "done"
    /\ steps = PhaseOrder
    /\ df_written.rows # {}
    /\ df_deleted.rows # {}

\* C18: after a save that returns, with a write_operation and a
\* delete_operation that returned every row they were offered, the keys of
\* the active cache rows are the non-null keys of the batch, every active row
\* has the hash of its key's batch row, and every key that was active before
\* and is not in the batch has a deletedTime; on a cache that was empty a
\* batch of n keys leaves n active rows and has nothing to delete.
C18_CacheMirrorsBatch ==
    (pc = "done" /\ df_written.rows = to_be_written /\ df_deleted.rows = to_be_deleted) =>
        /\ KeysOf(ActiveRows(cacheTable)) = KeysOf(filter_null_keys(df))
        /\ \A c \in ActiveRows(cacheTable) : \A r \in df :
              r.key = c.key => c.rowHash = hash(r.key, r.val)
        /\ \A c \in ActiveRows(tableAtStart) :
              c.key \notin KeysOf(df) =>
                  \E c2 \in cacheTable : c2.key = c.key /\ c2.deletedTime # NULL
        /\ tableAtStart = {} =>
              /\ Cardinality(ActiveRows(cacheTable)) = Cardinality(filter_null_keys(df))
              /\ to_be_deleted = {}

\* C18 witness: the call wrote a key that was marked deleted and deleted a
\* key that left the batch; the batch held a row with a null key
C18_Witness ==
    /\ pc = "done"
    /\ df_written.some /\ df_written.rows = to_be_written
    /\ df_deleted.some /\ df_deleted.rows = to_be_deleted
    /\ to_be_written # {}
    /\ to_be_deleted # {}
    /\ \E r \in df : r.key = NULL
    /\ \E c \in tableAtStart : \E r \in df_written.rows :
          c.key = r.key /\ c.deletedTime # NULL

\* C20: the merge of the write branch leaves, for every key of the rows R
\* that write_operation returned, exactly one cache row, with the hash the
\* reducer computes for the written row, the time of the merge as loadedTime
\* and a null deletedTime; the rows of all other keys are as they were.
C20_WrittenCacheUpdate ==
    [][(pc = "load_written" /\ pc' = "delete") =>
          /\ \A r \in df_written.rows :
                /\ Cardinality({c \in cacheTable' : c.key = r.key}) = 1
                /\ \A c \in cacheTable' :
                      c.key = r.key =>
                          /\ \E h \in df_hashed({r}) : c.rowHash = h.rowHash
                          /\ c.loadedTime = clock
                          /\ c.deletedTime = NULL
          /\ \A c \in cacheTable :
                c.key \notin KeysOf(df_written.rows) => c \in cacheTable'
          /\ \A c \in cacheTable' :
                c.key \notin KeysOf(df_written.rows) => c \in cacheTable]_vars

\* C20 witness: the merge has committed for a key that was marked deleted
\* and for a key that had another hash, some time after the reducer ran
C20_Witness ==
    /\ pc = "delete"
    /\ written_update.some
    /\ clock > now
    /\ \E c \in tableAtStart : \E r \in df_written.rows :
          c.key = r.key /\ c.deletedTime # NULL
    /\ \E c \in ActiveRows(tableAtStart) : \E r \in df_written.rows :
          c.key = r.key /\ c.rowHash # hash(r.key, r.val)

\* C21: the merge of the delete branch leaves, for every key of the rows
\* that delete_operation returned, one cache row with the hash and the
\* loadedTime the row had before the merge and a deletedTime that is not
\* null (the time of the merge); no row leaves the table and the rows of all
\* other keys are as they were.
C21_DeletedCacheUpdate ==
    [][(pc = "load_deleted" /\ pc' = "done") =>
          /\ \A r \in df_deleted.rows :
                \E c \in cacheTable :
                   /\ c.key = r.key
                   /\ \A c2 \in cacheTable' :
                         c2.key = r.key =>
                             c2 = CacheRow(c.key, c.rowHash, c.loadedTime, clock)
                   /\ \E c2 \in cacheTable' : c2.key = r.key /\ c2.deletedTime # NULL
          /\ Cardinality(cacheTable') = Cardinality(cacheTable)
          /\ KeysOf(cacheTable') = KeysOf(cacheTable)
          /\ \A c \in cacheTable :
                c.key \notin KeysOf(df_deleted.rows) => c \in cacheTable'
          /\ \A c \in cacheTable' :
                c.key \notin KeysOf(df_deleted.rows) => c \in cacheTable]_vars

\* C21 witness: the merge of the delete branch has committed for a key that
\* left the batch, after the write branch refreshed the row of another key
C21_Witness ==
    /\ pc = "done"
    /\ df_deleted.some /\ df_deleted.rows # {}
    /\ written_update.some /\ written_update.rows # {}
    /\ \E c \in cacheTable : \E d \in df_deleted.rows :
          /\ c.key = d.key
          /\ c.rowHash = d.rowHash /\ c.loadedTime = d.loadedTime
          /\ c.deletedTime > now

\* the rows of the table of the running call that are marked deleted
MarkedDeleted == {c \in tableAtStart : c.deletedTime # NULL}

\* C22: a key whose cache row is marked deleted is not offered to
\* delete_operation while it is absent from the batch; when it is in the
\* batch its row is in to_be_written, whatever its hash; and once the write
\* branch has merged the row write_operation returned for it, the key has
\* one cache row, active, with the hash of the batch row, a null deletedTime
\* and the time of the merge as loadedTime.
C22_KeyLifecycle ==
    /\ pc \notin {"extract", "reduce"} =>
          \A c \in MarkedDeleted :
             /\ c.key \notin KeysOf(to_be_deleted)
             /\ \A r \in df : r.key = c.key => r \in to_be_written
    /\ written_update.some =>
          \A c \in MarkedDeleted : \A r \in df_written.rows :
             r.key = c.key =>
                 /\ Cardinality({c2 \in cacheTable : c2.key = c.key}) = 1
                 /\ \A c2 \in cacheTable :
                       c2.key = c.key =>
                           /\ c2 \in ActiveRows(cacheTable)
                           /\ c2.rowHash = hash(r.key, r.val)
                           /\ c2.deletedTime = NULL
                           /\ c2.loadedTime >= now
                           /\ c2.loadedTime > c.loadedTime

\* C22 witness: one key marked deleted is back in the batch with the hash
\* the cache holds and has been written and made active again; another key
\* marked deleted stays absent and was not offered for deletion
C22_Witness ==
    /\ pc = "done"
    /\ written_update.some
    /\ \E c \in MarkedDeleted : \E r \in df_written.rows :
          /\ r.key = c.key
          /\ c.rowHash = hash(r.key, r.val)
          /\ \E c2 \in ActiveRows(cacheTable) : c2.key = c.key
    /\ \E c \in MarkedDeleted :
          /\ c.key \notin KeysOf(df)
          /\ c \in cacheTable

\* the steps of save that call the two operations and the store
Fallible == {"write_operation", "load_cache_written", "delete_operation",
             "load_cache_deleted"}

\* C25: an incoming row with a null key is never in to_be_written; the
\* delete candidates are the active cache rows without a row of their key
\* among the rows of the batch that have a key, as if the null-key rows
\* were not there; and the reducer returns a result for every batch, so a
\* call raises only in an operation or a merge.
C25_NullKeysDropped ==
    /\ pc \notin {"extract", "reduce"} =>
          /\ \A r \in to_be_written : r.key # NULL
          /\ to_be_deleted =
                {c \in ActiveRows(tableAtStart) :
                    \A r \in df : r.key # NULL => r.key # c.key}
    /\ pc = "reduce" => ReducerOutcomes(df, cache, clock, params) # {}
    /\ pc = "raised" => raisedIn \in Fallible

\* C25 witness: a call whose batch held a row with a null key has returned,
\* after writing a row and deleting a row
C25_Witness ==
    /\ pc = "done"
    /\ \E r \in df : r.key = NULL
    /\ df_written.rows # {}
    /\ df_deleted.rows # {}

\* ---- properties of _extract_cache beside another writer

\* C11: the cache view the reducer uses is exactly the active rows of the
\* table as it was when the version number was read; what another writer
\* merged after that, before or after the rows were read, is not in it, and
\* the delete candidates come from that view.
C11_SnapshotPin ==
    pc \in {"reduce", "write"} =>
        /\ cache = ActiveRows(tableAtStart)
        /\ tableAtStart = history[version + 1]
        /\ pc = "write" =>
              to_be_deleted = {c \in ActiveRows(tableAtStart) : \A r \in df : r.key # c.key}

\* C11 witness: another writer merged between the read of the version and
\* the read of the rows and changed the active rows; the reducer has run on
\* the pinned view
C11_Witness ==
    /\ pc = "write"
    /\ Len(steps) >= 3
    /\ steps[1] = "describe_history" /\ steps[2] = "other_merge"
    /\ steps[3] = "extract_cache"
    /\ ActiveRows(cacheTable) # ActiveRows(tableAtStart)
    /\ to_be_written # {}
    /\ to_be_deleted # {}

\* ---- properties of interleaved _load_cache calls

\* C12 (as claimed): no two _load_cache calls use the same staging view
\* name, so every merge, however the calls interleave between creating the
\* view and running the MERGE, applies exactly the rows passed to its own call.
C12_StagingIsolation ==
    \A i \in MergeCalls :
        merges[i].at = "merged" => merges[i].applied = merges[i].cache_to_load

\* the names of two calls in flight collide
C12_SameViewName ==
    \E i, j \in MergeCalls :
        /\ i # j
        /\ merges[i].at # "start" /\ merges[j].at # "start"
        /\ merges[i].view_name = merges[j].view_name

\* ---- properties of repeated saves of one batch

\* no two rows of the batch have the same key
UniqueKeys(b) == \A r1, r2 \in b : r1.key = r2.key => r1 = r2

\* the active cache row of key k was loaded at time t and is older than
\* refresh_ttl now
StaleAt(k, t) ==
    /\ params.refresh_ttl > 0
    /\ clock - t > params.refresh_ttl * TicksPerSec
    /\ \E c \in ActiveRows(cacheTable) : c.key = k /\ c.loadedTime = t

\* the active cache row of key k was loaded after time t
LoadedAfter(k, t) ==
    \E c \in ActiveRows(cacheTable) : c.key = k /\ c.loadedTime > t

\* C28 (as claimed): with refresh_ttl > 0, refresh_row_limit > 0 and a
\* write_operation that returns every row offered, when one batch is saved
\* again and again, every key of the batch whose cache row is older than
\* refresh_ttl is eventually written and gets a later loadedTime.
C28_NoStarvation ==
    \A k \in Keys : \A t \in 0..MaxClock :
        (params.refresh_row_limit > 0 /\ k \in KeysOf(batch) /\ StaleAt(k, t))
            ~> LoadedAfter(k, t)

\* C28 (amended): the same, for a batch in which no two rows have the same key.
C28_NoStarvationUniqueKeys ==
    \A k \in Keys : \A t \in 0..MaxClock :
        (/\ params.refresh_row_limit > 0
         /\ UniqueKeys(batch)
         /\ k \in KeysOf(batch)
         /\ StaleAt(k, t)) ~> LoadedAfter(k, t)

\* C28 witness: both rows of the batch were older than refresh_ttl with the
\* same loadedTime when the call started; the budget of one row admitted one
\* of them, which has its later loadedTime, and the other still waits
C28_Witness ==
    /\ pc = "done"
    /\ params.refresh_row_limit = 1 /\ params.refresh_ttl > 0 /\ params.max_ttl = 0
    /\ UniqueKeys(batch)
    /\ Cardinality(tableAtStart) = 2
    /\ \E k1, k2 \in KeysOf(batch) :
          /\ k1 # k2
          /\ \E c1, c2 \in ActiveRows(tableAtStart) :
                /\ c1.key = k1 /\ c2.key = k2 /\ c1.loadedTime = c2.loadedTime
                /\ LoadedAfter(k1, c1.loadedTime)
                /\ StaleAt(k2, c2.loadedTime)
                /\ KeysOf(to_be_written) = {k1}


\* the committed merges that hold a row of key k, by their place in commits
CommitsFor(k) == {n \in 1..Len(commits) : k \in KeysOf(commits[n])}

\* the place of the last of them
LastCommitFor(k) == CHOOSE n \in CommitsFor(k) : \A m \in CommitsFor(k) : m <= n

RowsOf(k, rows) == {r \in rows : r.key = k}

BothDone == \A i \in MergeCalls : saves[i].pc = "done"

\* C27: however two save calls interleave, after every commit and so when
\* both calls have returned, the cache rows of every key that a committed
\* merge held a row for are exactly the row of the last such merge, whole;
\* the rows of the other keys are those of the table the calls started on;
\* and no key has two rows.
C27_LastWriterWins ==
    /\ \A k \in Keys :
          RowsOf(k, cacheTable) =
              IF CommitsFor(k) = {} THEN RowsOf(k, history[1])
              ELSE RowsOf(k, commits[LastCommitFor(k)])
    /\ \A x, y \in cacheTable : x.key = y.key => x = y

\* C27 witness: both calls pinned the first version, so the call whose merge
\* committed second reduced against a stale cache; both wrote the same key
\* with different rows, and the later row is in the table
C27_Witness ==
    /\ BothDone
    /\ \A i \in MergeCalls : saves[i].version = 0
    /\ Len(commits) = 4
    /\ \E k \in Keys :
          /\ k \in KeysOf(commits[1]) /\ k \in KeysOf(commits[2])
          /\ RowsOf(k, commits[1]) # RowsOf(k, commits[2])
          /\ RowsOf(k, history[1]) # {}
          /\ RowsOf(k, cacheTable) = RowsOf(k, commits[LastCommitFor(k)])

\* ---- properties of a write that returns part of the rows offered

\* the keys write_operation was offered and did not return
NotReturned == KeysOf(to_be_written) \ KeysOf(df_written.rows)

\* what the next save of the same batch can offer to write_operation, when
\* it is called now: the batches are those the df of this call is a
\* deduplication of
NextSaveOffers ==
    UNION {ReducerOutcomes(d, extract_cache(cacheTable), clock, params)
              : d \in UNION {dropDuplicates(b)
                                : b \in {x \in SUBSET InRows : df \in dropDuplicates(x)}}}

\* the same when the next save reduces the rows this call reduced
NextSaveOffersSameRows ==
    ReducerOutcomes(df, extract_cache(cacheTable), clock, params)

\* C29 (as claimed): after a call whose write_operation returned a subset of
\* the rows offered, only the returned keys have a cache row created or
\* refreshed, every offered key that was not returned has the cache rows it
\* had before, and the next save of the same batch offers it again.
C29_PartialWritesRetried ==
    (pc = "done" /\ df_written.some) =>
        /\ \A c \in cacheTable \ tableAtStart :
              c.deletedTime = NULL => c.key \in KeysOf(df_written.rows)
        /\ \A k \in NotReturned :
              /\ RowsOf(k, cacheTable) = RowsOf(k, tableAtStart)
              /\ \A out \in NextSaveOffers : k \in KeysOf(out)

\* the first two parts of C29 alone: the keys not returned keep their cache
\* rows and only returned keys get a row created or refreshed
C29_NotReturnedUntouched ==
    (pc = "done" /\ df_written.some) =>
        /\ \A c \in cacheTable \ tableAtStart :
              c.deletedTime = NULL => c.key \in KeysOf(df_written.rows)
        /\ \A k \in NotReturned : RowsOf(k, cacheTable) = RowsOf(k, tableAtStart)

\* the third part of C29 for the same rows and a key that is not of
\* priority 3: it is offered again
C29_RetriedUnlessSoftRefresh ==
    (pc = "done" /\ df_written.some) =>
        \A k \in NotReturned :
            (\A r \in SoftRefresh : r.key # k) =>
                \A out \in NextSaveOffersSameRows : k \in KeysOf(out)

\* the third part of C29 for the same rows, as claimed
C29_RetriedSameRows ==
    (pc = "done" /\ df_written.some) =>
        \A k \in NotReturned :
            \A out \in NextSaveOffersSameRows : k \in KeysOf(out)

\* ---- properties of construction

\* C13: __init__ raises, and no save ever runs, when the columns of the
\* cache table are not exactly the key columns, rowHash, loadedTime and
\* deletedTime, when the class defines neither write_operation nor
\* delete_operation, or when the class is CachedLoader itself; in every
\* other case construction succeeds.
C13_ConstructionValidated ==
    /\ pc # "new" =>
          (pc = "rejected" <=>
              \/ columns # RequiredColumns
              \/ ~cls.write /\ ~cls.delete
              \/ cls.base)
    /\ pc = "rejected" => (calls = 0 /\ n_rows_all_writes = NULL)
    /\ calls > 0 => validate(columns, cls) = ""

\* C13 witness: CachedLoader itself on a table of the right columns is rejected
C13_Witness ==
    /\ pc = "rejected"
    /\ cls.base
    /\ columns = RequiredColumns
    /\ raisedIn = "validate_class"

\* C14 (as claimed): a class is accepted only if it defines exactly one of
\* write_operation and delete_operation.
C14_ExactlyOne ==
    pc \notin {"new", "rejected"} => cls.write # cls.delete

\* C14 (amended): a class that defines neither write_operation nor
\* delete_operation is rejected; a subclass that defines one or both is
\* accepted on a table of the right columns.
C14_AtLeastOne ==
    pc # "new" =>
        /\ (~cls.write /\ ~cls.delete) => pc = "rejected"
        /\ (columns = RequiredColumns /\ ~cls.base /\ (cls.write \/ cls.delete))
              => pc # "rejected"

\* C14 witness: a subclass that defines both methods has been constructed
\* and runs a save
C14_Witness ==
    /\ pc = "extract"
    /\ cls = Class(FALSE, TRUE, TRUE)

====
